---- MODULE Spec2Model ----
(***************************************************************************)
(* Model of the three example scripts of skills/ms-agent-framework/scripts: *)
(* basic_agent_template.py, tool_agent_template.py and conversation_loop.py *)
(* (main(), ConversationLoop.run, calculate, convert_temperature).          *)
(*                                                                          *)
(* Python strings are sequences of one-character strings.  The external     *)
(* SDK (chat client, agent, run / run_stream) is modelled by its calls and  *)
(* by the outcomes a call can have: a value, or an exception.               *)
(***************************************************************************)
EXTENDS Integers, Sequences, FiniteSets, TLC

VARIABLES
    script,             \* which of the three scripts this process runs
    environ,            \* os.environ: the two variables the scripts read
    pc,                 \* position of the process in its script
    exit_code,          \* the value main() returned / sys.exit got
    client,             \* TRUE once AzureOpenAIChatClient(...) was constructed
    agent,              \* the agent object: whether create_agent returned it,
                        \* and the messages it was given with run / run_stream
    conversation_count, \* ConversationLoop.conversation_count
    user_input,         \* ConversationLoop.run: user_input (stripped line)
    full_response,      \* ConversationLoop.run: chunks accumulated this turn
    query_index,        \* basic/tool templates: index of the next agent.run
    io,                 \* everything observable so far: stdin reads, stdout
                        \* prints, calls on the agent, exceptions raised
    expression,         \* calculate: its argument
    calc_pc,            \* calculate: "call" before, "returned" / "raised" after
    calc_result,        \* calculate: the returned string
    eval_calls,         \* calculate: arguments eval() was called with
    celsius,            \* convert_temperature: first argument
    to_fahrenheit,      \* convert_temperature: second argument
    temp_pc,            \* convert_temperature: "call", "returned", "back"
    temp_result,        \* convert_temperature: returned value
    temp_back           \* value of converting temp_result the other way

vars == <<script, environ, pc, exit_code, client, agent, conversation_count,
          user_input, full_response, query_index, io, expression, calc_pc,
          calc_result, eval_calls, celsius, to_fahrenheit, temp_pc,
          temp_result, temp_back>>

scriptVars == <<script, environ, pc, exit_code, client, agent,
                conversation_count, user_input, full_response, query_index, io>>
calcVars == <<expression, calc_pc, calc_result, eval_calls>>
tempVars == <<celsius, to_fahrenheit, temp_pc, temp_result, temp_back>>

----------------------------------------------------------------------------
(* Bounds of the model.                                                     *)

\* input() calls made by one run of the conversation loop
MaxPrompts == 3
\* chunks one run_stream call yields at most
MaxChunks == 1

----------------------------------------------------------------------------
(* Python str operations used by the scripts.                               *)

\* characters str.strip() removes
Whitespace == {" ", "\t", "\n", "\r"}

UpperCase == <<"A","B","C","D","E","F","G","H","I","J","K","L","M",
               "N","O","P","Q","R","S","T","U","V","W","X","Y","Z">>
LowerCase == <<"a","b","c","d","e","f","g","h","i","j","k","l","m",
               "n","o","p","q","r","s","t","u","v","w","x","y","z">>

\* the lower-case letter of each upper-case letter
UpperToLower ==
    [c \in {UpperCase[i] : i \in 1..Len(UpperCase)} |->
        LowerCase[CHOOSE i \in 1..Len(UpperCase) : UpperCase[i] = c]]

\* str.lower() on one character
LowerChar(c) == IF c \in DOMAIN UpperToLower THEN UpperToLower[c] ELSE c

\* str.lower()
Lower(s) == [i \in 1..Len(s) |-> LowerChar(s[i])]

\* str.strip(): drop leading and trailing whitespace
Strip(s) ==
    LET keep == {i \in 1..Len(s) : s[i] \notin Whitespace}
    IN  IF keep = {} THEN <<>>
        ELSE LET lo == CHOOSE i \in keep : \A j \in keep : i <= j
                 hi == CHOOSE i \in keep : \A j \in keep : j <= i
             IN  SubSeq(s, lo, hi)

\* str.startswith(prefix)
StartsWith(s, prefix) ==
    /\ Len(s) >= Len(prefix)
    /\ SubSeq(s, 1, Len(prefix)) = prefix

----------------------------------------------------------------------------
(* The lines a user may type, and what the SDK may answer.                  *)

Slash == <<"/">>
CmdQuit == <<"/","q","u","i","t">>
CmdExit == <<"/","e","x","i","t">>
CmdHelp == <<"/","h","e","l","p">>
CmdClear == <<"/","c","l","e","a","r">>
CmdTools == <<"/","t","o","o","l","s">>

InputLines ==
    { <<>>,
      <<" ", "\t">>,
      CmdHelp,
      <<" ","/","H","e","l","p"," ">>,
      CmdClear,
      CmdTools,
      CmdQuit,
      <<"/","E","X","I","T"," ">>,
      <<"/","f","o","o">>,
      <<"/","q","u","i","t"," ","x">>,
      <<" ","a","/","b"," ">> }

\* texts of the chunks run_stream yields
ChunkTexts == { <<"o","k">> }

\* exceptions (subclasses of Exception) a call on the SDK may raise
SdkErrors == { "request failed" }

----------------------------------------------------------------------------
(* The observable trace.                                                    *)

Event(kind, text) == [ev |-> kind, arg |-> text]

In(line) == Event("input", line)
Out(text) == Event("print", text)
Call(text) == Event("agent_call", text)

MsgGoodbye == <<"Goodbye! Thanks for chatting.">>
MsgHelp == <<"Available commands:">>
MsgCleared == <<"[Conversation history cleared]">>
MsgTools == <<"Available tools">>
MsgUnknown(command) == <<"Unknown command: ">> \o command
MsgAgent == <<"Agent: ">>
MsgError(e) == <<"[Error: ", e, "]">>
MsgUseQuit == <<"Use /quit to exit properly.">>
MsgNewline == <<>>
MsgNoEndpoint == <<"Error: AZURE_OPENAI_ENDPOINT environment variable not set">>
MsgNoDeployment == <<"Error: AZURE_OPENAI_DEPLOYMENT_NAME environment variable not set">>
MsgNoClient(e) == <<"Error connecting to Azure OpenAI: ", e>>
MsgCancelled == <<"Execution cancelled by user">>
MsgFatal(e) == <<"Error: ", e>>

----------------------------------------------------------------------------
(* os.environ and the checks of main().                                     *)

EnvEndpoint == "AZURE_OPENAI_ENDPOINT"
EnvDeployment == "AZURE_OPENAI_DEPLOYMENT_NAME"

\* a variable is unset, set to the empty string, or set to a value
EnvValues ==
    { [set |-> FALSE, value |-> <<>>],
      [set |-> TRUE, value |-> <<>>],
      [set |-> TRUE, value |-> <<"x">>] }

\* os.environ.get(name): None when unset, else the string
EnvGet(name) == environ[name]

\* `not os.environ.get(name)`, with the None-only test a slip would make
NotValueNoneOnly(v) == ~v.set
NotValue(v) == ~v.set \/ v.value = <<>>

Scripts == {"basic", "tool", "conversation"}

\* the value main() returns on an error path; the process exit status
ErrorExit(s) == IF s = "conversation" THEN <<1>> ELSE <<0>>

\* the messages each template sends with agent.run
Queries(s) ==
    IF s = "basic"
    THEN << <<"Hello! What can you help me with?">>,
            <<"My name is Alice and I like programming.">>,
            <<"What's my name and what do I like?">> >>
    ELSE << <<"What time is it right now?">>,
            <<"What's the area of a rectangle that's 5 meters by 3 meters?">>,
            <<"Convert 25 degrees Celsius to Fahrenheit">>,
            <<"Search for information about Python programming">>,
            <<"Fetch data from https://example.com/api/data">> >>

\* the agent object after it was given one more message
AgentGiven(a, text) == [a EXCEPT !.messages = Append(@, text)]

\* input() calls made so far (each returns a line, or raises)
Prompts == Len(SelectSeq(io, LAMBDA e : e.ev \in {"input", "eof", "interrupt_input"}))

\* chunks printed so far in the current turn
Chunks == Len(full_response)

IdleCalc ==
    /\ expression = <<>>
    /\ calc_pc = "idle"
    /\ calc_result = [prefix |-> "", expression |-> <<>>, sep |-> "",
                      value |-> [type |-> "none", n |-> 0, d |-> 1], detail |-> ""]
    /\ eval_calls = <<>>

IdleTemp ==
    /\ celsius = 0
    /\ to_fahrenheit = TRUE
    /\ temp_pc = "idle"
    /\ temp_result = <<0, 1>>
    /\ temp_back = <<0, 1>>

IdleScript ==
    /\ script = "none"
    /\ environ = [n \in {EnvEndpoint, EnvDeployment} |-> [set |-> FALSE, value |-> <<>>]]
    /\ pc = "idle"
    /\ exit_code = <<>>
    /\ client = FALSE
    /\ agent = [created |-> FALSE, messages |-> <<>>]
    /\ conversation_count = 0
    /\ user_input = <<>>
    /\ full_response = <<>>
    /\ query_index = 0
    /\ io = <<>>

Init ==
    /\ script \in Scripts
    /\ environ \in [{EnvEndpoint, EnvDeployment} -> EnvValues]
    /\ pc = "main"
    /\ exit_code = <<>>
    /\ client = FALSE
    /\ agent = [created |-> FALSE, messages |-> <<>>]
    /\ conversation_count = 0
    /\ user_input = <<>>
    /\ full_response = <<>>
    /\ query_index = 0
    /\ io = <<>>
    /\ IdleCalc
    /\ IdleTemp

----------------------------------------------------------------------------
(* main() of the three scripts.                                             *)

\* "Verify environment variables": the endpoint first, then the deployment
CheckEnvironment ==
    /\ pc = "main"
    /\ IF NotValue(EnvGet(EnvEndpoint))
       THEN /\ io' = Append(io, Out(MsgNoEndpoint))
            /\ pc' = "done"
            /\ exit_code' = ErrorExit(script)
       ELSE IF NotValue(EnvGet(EnvDeployment))
       THEN /\ io' = Append(io, Out(MsgNoDeployment))
            /\ pc' = "done"
            /\ exit_code' = ErrorExit(script)
       ELSE /\ pc' = "client"
            /\ UNCHANGED <<io, exit_code>>
    /\ UNCHANGED <<script, environ, client, agent, conversation_count,
                   user_input, full_response, query_index>>
    /\ UNCHANGED <<calcVars, tempVars>>

\* AzureOpenAIChatClient(credential=AzureCliCredential()) returns
CreateClient ==
    /\ pc = "client"
    /\ client' = TRUE
    /\ pc' = "create_agent"
    /\ io' = IF script = "conversation" THEN io
             ELSE Append(io, Out(<<"Connected to Azure OpenAI">>))
    /\ UNCHANGED <<script, environ, exit_code, agent, conversation_count,
                   user_input, full_response, query_index>>
    /\ UNCHANGED <<calcVars, tempVars>>

\* ... or raises: the error is printed and main() returns
CreateClientFail ==
    /\ pc = "client"
    /\ \E e \in SdkErrors : io' = Append(io, Out(MsgNoClient(e)))
    /\ pc' = "done"
    /\ exit_code' = ErrorExit(script)
    /\ UNCHANGED <<script, environ, client, agent, conversation_count,
                   user_input, full_response, query_index>>
    /\ UNCHANGED <<calcVars, tempVars>>

\* client.create_agent(...) returns; the conversation script then builds
\* ConversationLoop(agent) and enters run(), which prints the welcome text
CreateAgent ==
    /\ pc = "create_agent"
    /\ agent' = [created |-> TRUE, messages |-> <<>>]
    /\ IF script = "conversation"
       THEN /\ conversation_count' = 0
            /\ io' = Append(io, Out(<<"Microsoft Agent Framework - Interactive Conversation">>))
            /\ pc' = "input"
            /\ UNCHANGED query_index
       ELSE /\ io' = Append(io, Out(<<"Agent created">>))
            /\ query_index' = 1
            /\ pc' = "query"
            /\ UNCHANGED conversation_count
    /\ UNCHANGED <<script, environ, exit_code, client, user_input, full_response>>
    /\ UNCHANGED <<calcVars, tempVars>>

\* ... or raises: the exception reaches the handler of __main__
CreateAgentFail ==
    /\ pc = "create_agent"
    /\ \E e \in SdkErrors : io' = Append(io, Out(MsgFatal(e)))
    /\ pc' = "done"
    /\ exit_code' = ErrorExit(script)
    /\ UNCHANGED <<script, environ, client, agent, conversation_count,
                   user_input, full_response, query_index>>
    /\ UNCHANGED <<calcVars, tempVars>>

\* basic/tool templates: one `await agent.run(query)` and the print of its text
RunQuery ==
    /\ pc = "query"
    /\ LET q == Queries(script)[query_index]
       IN  /\ agent' = AgentGiven(agent, q)
           /\ io' = io \o <<Call(q), Out(MsgAgent)>>
    /\ query_index' = query_index + 1
    /\ IF query_index = Len(Queries(script))
       THEN pc' = "done" /\ exit_code' = <<0>>
       ELSE pc' = "query" /\ UNCHANGED exit_code
    /\ UNCHANGED <<script, environ, client, conversation_count, user_input,
                   full_response>>
    /\ UNCHANGED <<calcVars, tempVars>>

\* agent.run raises: `except Exception` of __main__ prints it
RunQueryFail ==
    /\ pc = "query"
    /\ LET q == Queries(script)[query_index]
       IN  /\ agent' = AgentGiven(agent, q)
           /\ \E e \in SdkErrors : io' = io \o <<Call(q), Out(MsgFatal(e))>>
    /\ pc' = "done"
    /\ exit_code' = <<0>>
    /\ UNCHANGED <<script, environ, client, conversation_count, user_input,
                   full_response, query_index>>
    /\ UNCHANGED <<calcVars, tempVars>>

\* KeyboardInterrupt while the queries run: `except KeyboardInterrupt` of
\* __main__ prints the message and the process ends
InterruptQuery ==
    /\ pc = "query"
    /\ io' = io \o <<Event("interrupt", <<>>), Out(MsgCancelled)>>
    /\ pc' = "done"
    /\ exit_code' = <<0>>
    /\ UNCHANGED <<script, environ, client, agent, conversation_count,
                   user_input, full_response, query_index>>
    /\ UNCHANGED <<calcVars, tempVars>>

----------------------------------------------------------------------------
(* ConversationLoop (conversation_loop.py).                                 *)

\* print_help, show_tools: they only print
print_help == <<Out(MsgHelp)>>
show_tools == <<Out(MsgTools)>>

\* clear_history as written: it prints and resets the counter; self.agent is
\* not replaced and nothing is cleared on it.  ClearKeepsCount is the slip of
\* leaving the counter alone.
ClearKeepsCount(count) == count
clear_history(count) == 0

\* the counter after a turn that ran to the end of the try block
CountAfterTurn(count) == count + 1

\* the counter after a turn whose run_stream raised
CountAfterCountedFailure(count) == count + 1
CountAfterFailure(count) == count

\* `user_input.startswith('/')`, and the prefix-anywhere slip
IsCommandAnywhere(text) == \E i \in 1..Len(text) : text[i] = "/"
IsCommand(text) == StartsWith(text, Slash)

\* `command in ['/quit', '/exit']`, and the slip of comparing the input
\* without lower()
IsQuitExact(text) == text \in {CmdQuit, CmdExit}
IsQuit(text) == Lower(text) \in {CmdQuit, CmdExit}

\* one pass of the loop body from input() to the first await or `continue`:
\* lines 117-154
ReadLine ==
    /\ pc = "input"
    /\ Prompts < MaxPrompts
    /\ \E line \in InputLines :
        LET text == Strip(line)
            command == Lower(text)
        IN  /\ user_input' = text
            /\ IF text = <<>>
               THEN /\ io' = Append(io, In(line))
                    /\ pc' = "input"
                    /\ UNCHANGED <<conversation_count, agent, exit_code, full_response>>
               ELSE IF IsCommand(text)
               THEN IF IsQuit(text)
                    THEN /\ io' = io \o <<In(line), Out(MsgGoodbye)>>
                         /\ pc' = "done"
                         /\ exit_code' = <<0>>
                         /\ UNCHANGED <<conversation_count, agent, full_response>>
                    ELSE IF command = CmdHelp
                    THEN /\ io' = io \o <<In(line)>> \o print_help
                         /\ pc' = "input"
                         /\ UNCHANGED <<conversation_count, agent, exit_code, full_response>>
                    ELSE IF command = CmdClear
                    THEN /\ io' = io \o <<In(line), Out(MsgCleared)>>
                         /\ conversation_count' = clear_history(conversation_count)
                         /\ pc' = "input"
                         /\ UNCHANGED <<agent, exit_code, full_response>>
                    ELSE IF command = CmdTools
                    THEN /\ io' = io \o <<In(line)>> \o show_tools
                         /\ pc' = "input"
                         /\ UNCHANGED <<conversation_count, agent, exit_code, full_response>>
                    ELSE /\ io' = io \o <<In(line), Out(MsgUnknown(command))>>
                         /\ pc' = "input"
                         /\ UNCHANGED <<conversation_count, agent, exit_code, full_response>>
               ELSE /\ io' = io \o <<In(line), Out(MsgAgent), Call(text)>>
                    /\ agent' = AgentGiven(agent, text)
                    /\ full_response' = <<>>
                    /\ pc' = "stream"
                    /\ UNCHANGED <<conversation_count, exit_code>>
    /\ UNCHANGED <<script, environ, client, query_index>>
    /\ UNCHANGED <<calcVars, tempVars>>

\* input() raises EOFError: goodbye, break, main() returns 0
ReadEOF ==
    /\ pc = "input"
    /\ Prompts < MaxPrompts
    /\ io' = io \o <<Event("eof", <<>>), Out(MsgGoodbye)>>
    /\ pc' = "done"
    /\ exit_code' = <<0>>
    /\ UNCHANGED <<script, environ, client, agent, conversation_count,
                   user_input, full_response, query_index>>
    /\ UNCHANGED <<calcVars, tempVars>>

\* where `except KeyboardInterrupt` of the loop leaves the process: it prints
\* and continues.  InterruptBreaks is the loop ending there instead.
InterruptBreaks == "done"
AfterInterrupt == "input"

\* KeyboardInterrupt raised while input() waits
InterruptInput ==
    /\ pc = "input"
    /\ Prompts < MaxPrompts
    /\ io' = io \o <<Event("interrupt_input", <<>>), Out(MsgUseQuit)>>
    /\ pc' = AfterInterrupt
    /\ UNCHANGED <<script, environ, exit_code, client, agent, conversation_count,
                   user_input, full_response, query_index>>
    /\ UNCHANGED <<calcVars, tempVars>>

\* run_stream yields a chunk: it is printed and appended to full_response
StreamChunk ==
    /\ pc = "stream"
    /\ Chunks < MaxChunks
    /\ \E chunk \in ChunkTexts :
        /\ io' = Append(io, Out(chunk))
        /\ full_response' = Append(full_response, chunk)
    /\ UNCHANGED <<script, environ, pc, exit_code, client, agent,
                   conversation_count, user_input, query_index>>
    /\ UNCHANGED <<calcVars, tempVars>>

\* run_stream is exhausted: the `async for` ends, print() at line 157
StreamEnd ==
    /\ pc = "stream"
    /\ io' = io \o <<Event("stream_end", <<>>), Out(MsgNewline)>>
    /\ pc' = "counted"
    /\ UNCHANGED <<script, environ, exit_code, client, agent, conversation_count,
                   user_input, full_response, query_index>>
    /\ UNCHANGED <<calcVars, tempVars>>

\* run_stream raises an Exception, before or after some chunks:
\* the inner `except Exception` prints it and continues
StreamFail ==
    /\ pc = "stream"
    /\ \E e \in SdkErrors :
        io' = io \o <<Event("stream_error", <<e>>), Out(MsgError(e))>>
    /\ conversation_count' = CountAfterFailure(conversation_count)
    /\ pc' = "input"
    /\ UNCHANGED <<script, environ, exit_code, client, agent,
                   user_input, full_response, query_index>>
    /\ UNCHANGED <<calcVars, tempVars>>

\* lines 164-165: the turn is counted, and the loop goes round
CompleteTurn ==
    /\ pc = "counted"
    /\ conversation_count' = CountAfterTurn(conversation_count)
    /\ io' = io \o <<Event("turn_end", <<>>), Out(MsgNewline)>>
    /\ pc' = "input"
    /\ UNCHANGED <<script, environ, exit_code, client, agent,
                   user_input, full_response, query_index>>
    /\ UNCHANGED <<calcVars, tempVars>>

\* KeyboardInterrupt raised in the try block during a turn (while streaming, or
\* between the end of the stream and the increment)
InterruptTurn ==
    /\ pc \in {"stream", "counted"}
    /\ io' = io \o <<Event("interrupt", <<>>), Out(MsgUseQuit)>>
    /\ pc' = AfterInterrupt
    /\ UNCHANGED <<script, environ, exit_code, client, agent, conversation_count,
                   user_input, full_response, query_index>>
    /\ UNCHANGED <<calcVars, tempVars>>

Next ==
    \/ CheckEnvironment
    \/ CreateClient
    \/ CreateClientFail
    \/ CreateAgent
    \/ CreateAgentFail
    \/ RunQuery
    \/ RunQueryFail
    \/ InterruptQuery
    \/ ReadLine
    \/ ReadEOF
    \/ InterruptInput
    \/ StreamChunk
    \/ StreamEnd
    \/ StreamFail
    \/ CompleteTurn
    \/ InterruptTurn

Spec == Init /\ [][Next]_vars

----------------------------------------------------------------------------
(* Properties of the scripts, stated over the observable trace.             *)

Positions == 1..Len(io)

\* the first character of a line that is not whitespace, if any
FirstVisible(line) ==
    LET keep == {i \in 1..Len(line) : line[i] \notin Whitespace}
    IN  IF keep = {} THEN ""
        ELSE line[CHOOSE i \in keep : \A j \in keep : i <= j]

\* a line that is a chat message: not blank, and not a command
IsChatLine(line) == FirstVisible(line) \notin {"", "/"}

\* the line read at position i was handed to the agent
Forwarded(i) ==
    /\ i + 2 <= Len(io)
    /\ io[i + 2].ev = "agent_call"

AgentCalls == {j \in Positions : io[j].ev = "agent_call"}

\* C1: in the interactive loop the agent is invoked for a line exactly when
\* the line, stripped, is non-empty and does not start with '/': commands in
\* any letter case, unknown commands and blank lines are never forwarded, a
\* chat line is forwarded as stripped, and no call is made without a line.
C1_ForwardedIffChat ==
    script = "conversation" =>
        /\ \A i \in Positions :
            io[i].ev = "input" =>
                /\ Forwarded(i) <=> IsChatLine(io[i].arg)
                /\ Forwarded(i) =>
                    /\ io[i + 2].arg # <<>>
                    /\ io[i + 2].arg[1] \notin Whitespace \cup {"/"}
                    /\ \E a, b \in 0..Len(io[i].arg) :
                        /\ a + b + Len(io[i + 2].arg) = Len(io[i].arg)
                        /\ io[i + 2].arg = SubSeq(io[i].arg, a + 1, Len(io[i].arg) - b)
        /\ \A j \in AgentCalls : j > 2 /\ io[j - 2].ev = "input"

C1_Witness ==
    /\ script = "conversation"
    /\ \E i, k \in Positions :
        /\ io[i] = In(<<" ","a","/","b"," ">>)
        /\ Forwarded(i)
        /\ io[i + 2].arg = <<"a","/","b">>
        /\ io[k] = In(<<" ","/","H","e","l","p"," ">>)
        /\ ~Forwarded(k)

\* a required variable that is unset or empty
Missing(name) == ~environ[name].set \/ Len(environ[name].value) = 0

\* C2: in each script, when AZURE_OPENAI_ENDPOINT or
\* AZURE_OPENAI_DEPLOYMENT_NAME is unset or empty, no chat client is
\* constructed, no agent is created, no agent request is issued, and the run
\* ends having printed one error: the endpoint's when the endpoint is
\* missing, else the deployment name's.
C2_MissingEnvAborts ==
    (Missing(EnvEndpoint) \/ Missing(EnvDeployment)) =>
        /\ ~client
        /\ ~agent.created
        /\ agent.messages = <<>>
        /\ AgentCalls = {}
        /\ pc \in {"main", "done"}
        /\ pc = "done" =>
            io = << Out(IF Missing(EnvEndpoint) THEN MsgNoEndpoint
                        ELSE MsgNoDeployment) >>

C2_Witness ==
    /\ pc = "done"
    /\ environ[EnvEndpoint] = [set |-> TRUE, value |-> <<"x">>]
    /\ environ[EnvDeployment] = [set |-> TRUE, value |-> <<>>]
    /\ io = <<Out(MsgNoDeployment)>>

\* C3: when run_stream raises in a turn, before or after some chunks, the
\* error is printed, the loop is back at input() and has not ended, nothing
\* more is sent to the agent by that step, and conversation_count is what it
\* was; the next thing after the error is a new input(), never a second call
\* with the failed message.
C3_FailedTurnContinues ==
    /\ [][ ( /\ pc = "stream"
             /\ Len(io') > Len(io)
             /\ io'[Len(io) + 1].ev = "stream_error" )
           => /\ pc' = "input"
              /\ exit_code' = <<>>
              /\ conversation_count' = conversation_count
              /\ agent' = agent
              /\ Len(io') = Len(io) + 2
              /\ io'[Len(io')] = Out(MsgError(io'[Len(io) + 1].arg[1])) ]_vars
    /\ [](\A k \in Positions :
            io[k].ev = "stream_error" =>
                /\ k + 1 <= Len(io)
                /\ k + 2 <= Len(io) =>
                    io[k + 2].ev \in {"input", "eof", "interrupt_input"})

C3_Witness ==
    \E k, j \in Positions :
        /\ io[k].ev = "stream_error"
        /\ io[k - 1] = Out(<<"o","k">>)
        /\ j > k
        /\ io[j].ev = "agent_call"
        /\ conversation_count = 0
        /\ pc = "counted"

Interrupts == {k \in Positions : io[k].ev \in {"interrupt", "interrupt_input"}}

\* C4 as stated: after a KeyboardInterrupt the loop has ended; no input line
\* is read and no agent request is made afterwards.
C4_InterruptEndsLoop ==
    \A k \in Interrupts :
        \A j \in Positions : j > k => io[j].ev \notin {"input", "agent_call"}

\* C4 amended: in the basic and tool templates a KeyboardInterrupt ends the
\* run with "Execution cancelled by user" and nothing follows; in the
\* interactive loop a KeyboardInterrupt raised in the try block prints
\* "Use /quit to exit properly." and does not end the loop, which is back at
\* input() with conversation_count and the agent untouched.
C4_InterruptHandled ==
    /\ \A k \in Interrupts :
        IF script = "conversation"
        THEN /\ k + 1 <= Len(io)
             /\ io[k + 1] = Out(MsgUseQuit)
             /\ k + 1 = Len(io) => pc = "input" /\ exit_code = <<>>
        ELSE /\ k + 1 = Len(io)
             /\ io[k + 1] = Out(MsgCancelled)
             /\ pc = "done"

C4_Witness ==
    /\ script = "conversation"
    /\ \E k \in Interrupts : \E i, j \in Positions :
        /\ k < i
        /\ i < j
        /\ io[i].ev = "input"
        /\ io[j].ev = "agent_call"

\* C6 as stated: once /clear was processed the agent holds none of the
\* messages exchanged before it.
C6_ClearEmptiesContext ==
    (pc = "input" /\ io # <<>> /\ io[Len(io)] = Out(MsgCleared)) =>
        agent.messages = <<>>

\* the lines that are /quit or /exit in some letter case, stripped
IsQuitLine(line) == Lower(Strip(line)) \in {CmdQuit, CmdExit}

\* C7: /quit and /exit in any letter case, and end of input, end the loop:
\* goodbye is printed, nothing is read or sent afterwards and main() returns
\* 0; no other line ends the loop, so a loop that has ended was ended by one
\* of the three.
C7_QuitExitEofEndLoop ==
    script = "conversation" =>
        /\ \A i \in Positions :
            (io[i].ev = "eof" \/ (io[i].ev = "input" /\ IsQuitLine(io[i].arg))) =>
                /\ i + 1 = Len(io)
                /\ io[i + 1] = Out(MsgGoodbye)
                /\ pc = "done"
                /\ exit_code = <<0>>
        /\ \A i \in Positions :
            (io[i].ev = "input" /\ ~IsQuitLine(io[i].arg) /\ i = Len(io)) =>
                pc = "input"
        /\ (agent.created /\ pc = "done") =>
            /\ Len(io) >= 2
            /\ io[Len(io)] = Out(MsgGoodbye)
            /\ \/ io[Len(io) - 1].ev = "eof"
               \/ io[Len(io) - 1].ev = "input" /\ IsQuitLine(io[Len(io) - 1].arg)

C7_Witness ==
    /\ pc = "done"
    /\ exit_code = <<0>>
    /\ Len(io) >= 2
    /\ io[Len(io) - 1] = In(<<"/","E","X","I","T"," ">>)
    /\ \E i \in Positions : io[i] = In(<<"/","q","u","i","t"," ","x">>)

\* the position of the last /clear read, 0 if none
LastClear ==
    LET clears == {i \in Positions :
                     io[i].ev = "input" /\ Lower(Strip(io[i].arg)) = CmdClear}
    IN  IF clears = {} THEN 0
        ELSE CHOOSE i \in clears : \A j \in clears : j <= i

\* how the turn begun by the call at position j ended: the first later event
\* that ends a turn, "open" while the turn is still running
TurnOutcome(j) ==
    LET ends == {k \in Positions :
                   k > j /\ io[k].ev \in {"stream_error", "interrupt", "turn_end"}}
    IN  IF ends = {} THEN "open"
        ELSE io[CHOOSE k \in ends : \A m \in ends : k <= m].ev

----------------------------------------------------------------------------
(* calculate (conversation_loop.py) and the eval() it calls.                *)

\* longest expression handed to calculate
MaxExprLen == 4

\* allowed_chars = set("0123456789+-*/(). ")
AllowedChars ==
    {"0","1","2","3","4","5","6","7","8","9","+","-","*","/","(",")","."," "}

\* the characters expressions are drawn from: allowed ones, and a letter,
\* which is not allowed
EvalChars == {"0", "1", "+", "-", "/", "(", ")", " "}
CalcChars == EvalChars \cup {"a"}
CalcInputs == UNION {[1..n -> CalcChars] : n \in 0..MaxExprLen}

\* all(c in allowed_chars for c in expression), and any(...) in its place
SomeAllowed(expr) == \E i \in 1..Len(expr) : expr[i] \in AllowedChars
AllAllowed(expr) == \A i \in 1..Len(expr) : expr[i] \in AllowedChars

\* Python values: int, float (kept as the exact fraction n/d, d > 0, in lowest
\* terms) and the empty tuple
RECURSIVE Gcd(_, _)
Gcd(a, b) == IF b = 0 THEN a ELSE Gcd(b, a % b)

Abs(a) == IF a < 0 THEN -a ELSE a

Value(type, n, d) ==
    LET g == Gcd(Abs(n), d)
    IN  [type |-> type, n |-> n \div g, d |-> d \div g]

IntValue(n) == [type |-> "int", n |-> n, d |-> 1]
EmptyTuple == [type |-> "tuple", n |-> 0, d |-> 1]
NoValue == [type |-> "none", n |-> 0, d |-> 1]

\* the outcome of evaluating an expression: a value, or an exception
Returns(v) == [exc |-> "", val |-> v]
Raises(e) == [exc |-> e, val |-> NoValue]

IsNumber(v) == v.type \in {"int", "float"}
NumType(a, b) == IF a.type = "int" /\ b.type = "int" THEN "int" ELSE "float"

\* unary + and -
UnaryOp(op, x) ==
    IF x.exc # "" THEN x
    ELSE IF ~IsNumber(x.val) THEN Raises("TypeError")
    ELSE IF op = "-" THEN Returns([x.val EXCEPT !.n = -@])
    ELSE x

\* a + b, a - b, a / b, a // b: operands left to right, then the operation
BinOp(op, x, y) ==
    IF x.exc # "" THEN x
    ELSE IF y.exc # "" THEN y
    ELSE LET a == x.val
             b == y.val
         IN  IF a.type = "tuple" /\ b.type = "tuple" /\ op = "+"
             THEN Returns(EmptyTuple)
             ELSE IF ~IsNumber(a) \/ ~IsNumber(b) THEN Raises("TypeError")
             ELSE IF op = "+"
             THEN Returns(Value(NumType(a, b), a.n * b.d + b.n * a.d, a.d * b.d))
             ELSE IF op = "-"
             THEN Returns(Value(NumType(a, b), a.n * b.d - b.n * a.d, a.d * b.d))
             ELSE IF b.n = 0 THEN Raises("ZeroDivisionError")
             ELSE LET num == IF b.n < 0 THEN -(a.n * b.d) ELSE a.n * b.d
                      den == a.d * Abs(b.n)
                  IN  IF op = "/" THEN Returns(Value("float", num, den))
                      ELSE Returns(Value(NumType(a, b), num \div den, 1))

\* f(...) on an int, a float or a tuple: callee, then argument, then the call
CallOp(f, arg) ==
    IF f.exc # "" THEN f
    ELSE IF arg.exc # "" THEN arg
    ELSE Raises("TypeError")

Digits == {"0", "1", "2", "3", "4", "5", "6", "7", "8", "9"}

DigitValue(c) ==
    CASE c = "0" -> 0 [] c = "1" -> 1 [] c = "2" -> 2 [] c = "3" -> 3
      [] c = "4" -> 4 [] c = "5" -> 5 [] c = "6" -> 6 [] c = "7" -> 7
      [] c = "8" -> 8 [] c = "9" -> 9

RECURSIVE Decimal(_)
Decimal(ds) ==
    IF ds = <<>> THEN 0
    ELSE 10 * Decimal(SubSeq(ds, 1, Len(ds) - 1)) + DigitValue(ds[Len(ds)])

Token(t, v) == [t |-> t, v |-> v]

\* the letters identifiers are made of here
Letters == {"a"}

\* the tokens of an expression; ok is FALSE for a decimal literal with a
\* leading zero that is not all zeros.  Covers the characters of CalcChars.
RECURSIVE Lex(_, _)
Lex(s, i) ==
    IF i > Len(s) THEN [ok |-> TRUE, toks |-> <<>>]
    ELSE IF s[i] = " " THEN Lex(s, i + 1)
    ELSE IF s[i] \in Digits
    THEN LET stop == {j \in i..Len(s) : s[j] \notin Digits}
             last == IF stop = {} THEN Len(s)
                     ELSE (CHOOSE j \in stop : \A k \in stop : j <= k) - 1
             text == SubSeq(s, i, last)
             rest == Lex(s, last + 1)
         IN  [ok |-> /\ rest.ok
                     /\ \/ text[1] # "0"
                        \/ \A k \in 1..Len(text) : text[k] = "0",
              toks |-> <<Token("num", Decimal(text))>> \o rest.toks]
    ELSE IF s[i] \in Letters
    THEN LET stop == {j \in i..Len(s) : s[j] \notin Letters \cup Digits}
             last == IF stop = {} THEN Len(s)
                     ELSE (CHOOSE j \in stop : \A k \in stop : j <= k) - 1
             rest == Lex(s, last + 1)
         IN  [ok |-> rest.ok, toks |-> <<Token("name", 0)>> \o rest.toks]
    ELSE IF s[i] = "/" /\ i < Len(s) /\ s[i + 1] = "/"
    THEN LET rest == Lex(s, i + 2)
         IN  [ok |-> rest.ok, toks |-> <<Token("//", 0)>> \o rest.toks]
    ELSE LET rest == Lex(s, i + 1)
         IN  CASE s[i] \in {"+", "-", "/", "(", ")"} ->
                 [ok |-> rest.ok, toks |-> <<Token(s[i], 0)>> \o rest.toks]

\* the token at position p, "end" past the last one
Tok(ts, p) == IF p <= Len(ts) THEN ts[p].t ELSE "end"

SyntaxFail == [syn |-> FALSE, pos |-> 0, res |-> Raises("SyntaxError")]
Parsed(p, r) == [syn |-> TRUE, pos |-> p, res |-> r]

\* Python's expression grammar over these tokens:
\*   arith  ::= term (('+' | '-') term)*
\*   term   ::= factor (('/' | '//') factor)*
\*   factor ::= ('+' | '-') factor | primary
\*   primary::= atom ('(' [arith] ')')*
\*   atom   ::= NUMBER | NAME | '(' ')' | '(' arith ')'
\* With no builtins and no variables a NAME raises NameError.
RECURSIVE ParseArith(_, _), ArithRest(_, _), ParseTerm(_, _), TermRest(_, _),
          ParseFactor(_, _), ParsePrimary(_, _), Trailers(_, _), ParseAtom(_, _)

ParseAtom(ts, p) ==
    IF Tok(ts, p) = "num" THEN Parsed(p + 1, Returns(IntValue(ts[p].v)))
    ELSE IF Tok(ts, p) = "name" THEN Parsed(p + 1, Raises("NameError"))
    ELSE IF Tok(ts, p) = "("
    THEN IF Tok(ts, p + 1) = ")" THEN Parsed(p + 2, Returns(EmptyTuple))
         ELSE LET e == ParseArith(ts, p + 1)
              IN  IF e.syn /\ Tok(ts, e.pos) = ")"
                  THEN Parsed(e.pos + 1, e.res)
                  ELSE SyntaxFail
    ELSE SyntaxFail

Trailers(ts, acc) ==
    IF ~acc.syn \/ Tok(ts, acc.pos) # "(" THEN acc
    ELSE IF Tok(ts, acc.pos + 1) = ")"
    THEN Trailers(ts, Parsed(acc.pos + 2, CallOp(acc.res, Returns(NoValue))))
    ELSE LET e == ParseArith(ts, acc.pos + 1)
         IN  IF e.syn /\ Tok(ts, e.pos) = ")"
             THEN Trailers(ts, Parsed(e.pos + 1, CallOp(acc.res, e.res)))
             ELSE SyntaxFail

ParsePrimary(ts, p) == Trailers(ts, ParseAtom(ts, p))

ParseFactor(ts, p) ==
    IF Tok(ts, p) \in {"+", "-"}
    THEN LET f == ParseFactor(ts, p + 1)
         IN  IF f.syn THEN Parsed(f.pos, UnaryOp(Tok(ts, p), f.res)) ELSE SyntaxFail
    ELSE ParsePrimary(ts, p)

TermRest(ts, acc) ==
    IF ~acc.syn \/ Tok(ts, acc.pos) \notin {"/", "//"} THEN acc
    ELSE LET f == ParseFactor(ts, acc.pos + 1)
         IN  IF f.syn
             THEN TermRest(ts, Parsed(f.pos, BinOp(Tok(ts, acc.pos), acc.res, f.res)))
             ELSE SyntaxFail

ParseTerm(ts, p) == TermRest(ts, ParseFactor(ts, p))

ArithRest(ts, acc) ==
    IF ~acc.syn \/ Tok(ts, acc.pos) \notin {"+", "-"} THEN acc
    ELSE LET t == ParseTerm(ts, acc.pos + 1)
         IN  IF t.syn
             THEN ArithRest(ts, Parsed(t.pos, BinOp(Tok(ts, acc.pos), acc.res, t.res)))
             ELSE SyntaxFail

ParseArith(ts, p) == ArithRest(ts, ParseTerm(ts, p))

\* eval(expression, {"__builtins__": {}}, {}): the source is compiled whole
\* (SyntaxError), then evaluated
Eval(s) ==
    LET lexed == Lex(s, 1)
    IN  IF ~lexed.ok THEN Raises("SyntaxError")
        ELSE LET e == ParseArith(lexed.toks, 1)
             IN  IF e.syn /\ e.pos = Len(lexed.toks) + 1 THEN e.res
                 ELSE Raises("SyntaxError")


\* `except Exception`: the classes eval() raises here are all subclasses of
\* Exception (ZeroDivisionError through ArithmeticError).  The second
\* definition is a handler that names ArithmeticError only.
CaughtArithmeticOnly(e) == e \in {"ArithmeticError", "ZeroDivisionError"}
CaughtByException(e) ==
    e \in {"Exception", "ArithmeticError", "ZeroDivisionError", "SyntaxError",
           "TypeError", "NameError"}

\* the strings calculate returns
InvalidCharacters ==
    [prefix |-> "Error: Expression contains invalid characters",
     expression |-> <<>>, sep |-> "", value |-> NoValue, detail |-> ""]
Formatted(expr, v) ==
    [prefix |-> "", expression |-> expr, sep |-> " = ", value |-> v, detail |-> ""]
ErrorCalculating(e) ==
    [prefix |-> "Error calculating: ", expression |-> <<>>, sep |-> "",
     value |-> NoValue, detail |-> e]
NotReturned ==
    [prefix |-> "", expression |-> <<>>, sep |-> "", value |-> NoValue, detail |-> ""]

\* calculate(expression)
Calculate ==
    /\ calc_pc = "call"
    /\ IF ~AllAllowed(expression)
       THEN /\ calc_result' = InvalidCharacters
            /\ calc_pc' = "returned"
            /\ UNCHANGED eval_calls
       ELSE LET r == Eval(expression)
            IN  /\ eval_calls' = Append(eval_calls, expression)
                /\ IF r.exc = ""
                   THEN /\ calc_result' = Formatted(expression, r.val)
                        /\ calc_pc' = "returned"
                   ELSE IF CaughtByException(r.exc)
                   THEN /\ calc_result' = ErrorCalculating(r.exc)
                        /\ calc_pc' = "returned"
                   ELSE /\ calc_result' = NotReturned
                        /\ calc_pc' = "raised"
    /\ UNCHANGED expression
    /\ UNCHANGED <<scriptVars, tempVars>>

InitCalc ==
    /\ IdleScript
    /\ IdleTemp
    /\ expression \in CalcInputs
    /\ calc_pc = "call"
    /\ calc_result = NotReturned
    /\ eval_calls = <<>>

NextCalc == Calculate

SpecCalc == InitCalc /\ [][NextCalc]_vars

\* the fixed safe set, written out
SafeSet ==
    {"0","1","2","3","4","5","6","7","8","9","+","-","*","/","(",")","."," "}

\* C5: calculate rejects every input with a character outside the safe set:
\* it returns "Error: Expression contains invalid characters" and eval is
\* not called; only strings made of safe characters reach eval.
C5_UnsafeRejected ==
    /\ (calc_pc # "call" /\ \E i \in 1..Len(expression) : expression[i] \notin SafeSet) =>
        /\ calc_pc = "returned"
        /\ calc_result.prefix = "Error: Expression contains invalid characters"
        /\ calc_result.expression = <<>>
        /\ calc_result.value.type = "none"
        /\ eval_calls = <<>>
    /\ \A k \in 1..Len(eval_calls) :
        \A i \in 1..Len(eval_calls[k]) : eval_calls[k][i] \in SafeSet

C5_Witness ==
    /\ calc_pc = "returned"
    /\ expression = <<"1", "+", "a", "1">>
    /\ calc_result = InvalidCharacters
    /\ eval_calls = <<>>

----------------------------------------------------------------------------
(* convert_temperature (tool_agent_template.py).                            *)

\* temperatures convert_temperature is called with: -MaxTemp..MaxTemp
MaxTemp == 30

\* a Python float, kept as the exact fraction <<n, d>> in lowest terms, d > 0
Frac(n, d) ==
    LET g == Gcd(Abs(n), d)
    IN  <<n \div g, d \div g>>

FMulInt(x, k) == Frac(x[1] * k, x[2])
FDivInt(x, k) == Frac(x[1], x[2] * k)
FAddInt(x, k) == Frac(x[1] + k * x[2], x[2])

\* convert_temperature(celsius, to_fahrenheit); before it, the function with
\* the two factors exchanged
ConvertSwapped(x, toF) ==
    IF toF
    THEN FAddInt(FDivInt(FMulInt(x, 5), 9), 32)
    ELSE FDivInt(FMulInt(FAddInt(x, -32), 9), 5)
convert_temperature(x, toF) ==
    IF toF
    THEN FAddInt(FDivInt(FMulInt(x, 9), 5), 32)
    ELSE FDivInt(FMulInt(FAddInt(x, -32), 5), 9)

InitTemp ==
    /\ IdleScript
    /\ IdleCalc
    /\ celsius \in -MaxTemp..MaxTemp
    /\ to_fahrenheit \in BOOLEAN
    /\ temp_pc = "call"
    /\ temp_result = <<0, 1>>
    /\ temp_back = <<0, 1>>

\* the call
Convert ==
    /\ temp_pc = "call"
    /\ temp_result' = convert_temperature(Frac(celsius, 1), to_fahrenheit)
    /\ temp_pc' = "returned"
    /\ UNCHANGED <<celsius, to_fahrenheit, temp_back>>
    /\ UNCHANGED <<scriptVars, calcVars>>

\* the result converted the other way
ConvertBack ==
    /\ temp_pc = "returned"
    /\ temp_back' = convert_temperature(temp_result, ~to_fahrenheit)
    /\ temp_pc' = "back"
    /\ UNCHANGED <<celsius, to_fahrenheit, temp_result>>
    /\ UNCHANGED <<scriptVars, calcVars>>

NextTemp ==
    \/ Convert
    \/ ConvertBack

SpecTemp == InitTemp /\ [][NextTemp]_vars

\* C8: with to_fahrenheit = True the result r satisfies r = celsius * 9/5 + 32
\* (5 * (r - 32) = 9 * celsius), so 25 gives 77; with False it satisfies
\* 9 * r = 5 * (value - 32); and for a multiple of 5, converting to
\* Fahrenheit gives a whole number and converting that back gives the value
\* again.
C8_TemperatureConversion ==
    /\ (temp_pc # "call" /\ to_fahrenheit) =>
        /\ 5 * (temp_result[1] - 32 * temp_result[2]) = 9 * celsius * temp_result[2]
        /\ celsius = 25 => temp_result = <<77, 1>>
    /\ (temp_pc # "call" /\ ~to_fahrenheit) =>
        9 * temp_result[1] = 5 * (celsius - 32) * temp_result[2]
    /\ (temp_pc = "back" /\ to_fahrenheit /\ celsius % 5 = 0) =>
        /\ temp_result[2] = 1
        /\ temp_back = <<celsius, 1>>

C8_Witness ==
    /\ temp_pc = "back"
    /\ to_fahrenheit
    /\ celsius = 25
    /\ temp_result = <<77, 1>>
    /\ temp_back = <<25, 1>>

====
